---- MODULE Spec2Model ----
(***************************************************************************)
(* depviz "airtable sync": reconciliation of the local issue graph with a  *)
(* remote tabular store (cmd_airtable.go, airtableSync).                   *)
(*                                                                         *)
(* One run of airtableSync is modelled step by step: deduplication of the  *)
(* features, one List call per table, the classification loop (one step    *)
(* per feature of the map being ranged over), and per table the create     *)
(* loop followed by the update/delete loop (one step per record).          *)
(* The remote store persists between runs; everything else is rebuilt.     *)
(***************************************************************************)
EXTENDS Integers, Sequences, FiniteSets, TLC

\* ------------------------------------------------------------------ bounds
MaxIssues == 1       \* issues in the filtered graph
MaxRemoteRows == 2   \* rows in the remote store before the first run
MaxRuns == 2         \* consecutive runs over the same graph
MaxFailures == 1     \* remote calls that fail, over all runs

\* ------------------------------------------------------- airtabledb kinds
\* Table kinds in processing (= dependency) order.
ProviderIndex == 1
AccountIndex == 2
RepositoryIndex == 3
LabelIndex == 4
MilestoneIndex == 5
IssueIndex == 6
NumTables == 6

Kinds == 1..NumTables

StateUnknown == "Unknown"
StateUnchanged == "Unchanged"
StateChanged == "Changed"
StateNew == "New"

\* A record that the remote store has not (yet) assigned an internal ID.
NoID == 0

NoFields == [ID |-> "", Title |-> "", Links |-> {}]

\* -------------------------------------------------------------- the graph
\* Entities as they are embedded in an issue loaded from the database.
\* Optional pointers (Owner, Milestone, Creator) are sequences of length
\* 0 (nil) or 1; Labels and Assignees are slices.
P1 == [ID |-> "p1", Title |-> "x"]

Acct(id, t) == [ID |-> id, Title |-> t, ProviderID |-> "p1"]

Repo(owner) == [ID |-> "r1", Title |-> "x", Provider |-> P1, Owner |-> owner]

L1 == [ID |-> "l1", Title |-> "x", RepositoryID |-> "r1"]

M1(creator) ==
    [ID |-> "m1", Title |-> "x", RepositoryID |-> "r1", Creator |-> creator]

Issue(id, t, repo, author, labels, assignees, milestone) ==
    [ID |-> id, Title |-> t, Repository |-> repo, Author |-> author,
     Labels |-> labels, Assignees |-> assignees, Milestone |-> milestone]

IssueUniverse ==
    { Issue("i1", "x", Repo(<<Acct("a1", "x")>>), Acct("a1", "x"),
            <<>>, <<>>, <<>>),
      Issue("i1", "y", Repo(<<>>), Acct("a1", "x"),
            <<L1>>, <<Acct("a2", "x")>>, <<M1(<<Acct("a2", "x")>>)>>),
      Issue("i2", "x", Repo(<<Acct("a1", "x")>>), Acct("a1", "y"),
            <<L1, L1>>, <<Acct("a2", "x"), Acct("a1", "y")>>, <<M1(<<>>)>>) }

SeqsUpTo(S, n) == UNION { [1..m -> S] : m \in 0..n }

Graphs == SeqsUpTo(IssueUniverse, MaxIssues)

\* Rows the remote store may hold before the first run: an up-to-date
\* provider, a stale account, a repository without links, an orphan issue,
\* and (by taking a row twice) rows that share an ExternalID.
RowUniverse ==
    { [kind |-> ProviderIndex, Fields |-> [ID |-> "p1", Title |-> "x", Links |-> {}]],
      [kind |-> AccountIndex,
       Fields |-> [ID |-> "a1", Title |-> "y", Links |-> {<<"Provider", NoID>>}]],
      [kind |-> RepositoryIndex, Fields |-> [ID |-> "r1", Title |-> "x", Links |-> {}]],
      [kind |-> IssueIndex, Fields |-> [ID |-> "i9", Title |-> "x", Links |-> {}]] }

RECURSIVE RowsOfKind(_, _, _)
RowsOfKind(rows, k, from) ==
    IF from > Len(rows) THEN <<>>
    ELSE (IF rows[from].kind = k
          THEN <<[ID |-> from, Fields |-> rows[from].Fields]>>
          ELSE <<>>) \o RowsOfKind(rows, k, from + 1)

InitialRemotes ==
    { [k \in Kinds |-> RowsOfKind(rows, k, 1)] :
        rows \in SeqsUpTo(RowUniverse, MaxRemoteRows) }

RemoteRowCount(r) ==
    Len(r[1]) + Len(r[2]) + Len(r[3]) + Len(r[4]) + Len(r[5]) + Len(r[6])

\* ------------------------------------------------------------------ state
VARIABLES
    opts,       \* airtableOptions: DestroyInvalidRecords, BaseID, Token,
                \* TableName (the six ...TableName fields, by kind), TableNames
    filtered,   \* the filtered issues, in iteration order
    remote,     \* remote store: per kind the rows [ID, Fields]
    nextID,     \* next internal ID the remote store assigns
    features,   \* per kind: ExternalID -> Feature
    cache,      \* airtabledb.DB fetched at run start: per kind records
    unmatched,  \* airtabledb.DB of the records to create
    pc,         \* position in airtableSync
    kind,       \* tableKind of the loop at pc
    idx,        \* index i of the loop at pc
    todo,       \* keys of features[kind] the range loop has not visited
    result,     \* "none" while running, then "ok" (nil) or "err"
    run,        \* number of the current run
    log,        \* calls and record builds of the current run, in order
    prevRuns,   \* <<[result, log]>> of the finished runs
    failures    \* remote calls that have failed so far

vars == <<opts, filtered, remote, nextID, features, cache, unmatched, pc,
          kind, idx, todo, result, run, log, prevRuns, failures>>

EmptyDB == [k \in Kinds |-> <<>>]

\* ------------------------------------------------------------------ options
\* Default values of the table name flags (lines 51-61).
DefaultTableName(k) ==
    CASE k = IssueIndex -> "Issues and PRs"
      [] k = RepositoryIndex -> "Repositories"
      [] k = AccountIndex -> "Accounts"
      [] k = LabelIndex -> "Labels"
      [] k = MilestoneIndex -> "Milestones"
      [] k = ProviderIndex -> "Providers"

\* ParseFlags (lines 48-67): registering a flag stores its default in the
\* option field; TableNames[kind] is copied from the field right then.
ParseFlags ==
    [DestroyInvalidRecords |-> FALSE,
     BaseID |-> "",
     Token |-> "",
     TableName |-> [k \in Kinds |-> DefaultTableName(k)],
     TableNames |-> [k \in Kinds |-> DefaultTableName(k)]]

\* The command line is parsed after ParseFlags: every flag the user gives
\* is stored in its option field (lines 80-81 then copy the options).
SetFlags(o, args) ==
    [o EXCEPT !.DestroyInvalidRecords = args.destroy,
              !.BaseID = args.base,
              !.Token = args.token,
              !.TableName = [k \in Kinds |->
                    IF k \in DOMAIN args.names THEN args.names[k] ELSE @[k]]]

\* Table name flags a user may give: none, or a name for the issues table,
\* or names for the accounts and the issues tables.
NoNames == [k \in {} |-> ""]

RenamedTables ==
    { [k \in {IssueIndex} |-> "My issues"],
      [k \in {AccountIndex, IssueIndex} |->
            IF k = AccountIndex THEN "People" ELSE "My issues"] }

CommandLines(names) ==
    [destroy : BOOLEAN, base : {"", "app1"}, token : {"", "key1"}, names : names]

\* A credential check that fails only when both are missing.
MissingBoth(o) == o.BaseID = "" /\ o.Token = ""

\* Line 94.
MissingCredentials(o) == o.BaseID = "" \/ o.Token = ""

\* -------------------------------------------------------------- airtabledb
Rec(id, fields, state) == [ID |-> id, Fields |-> fields, State |-> state]

\* Internal ID of the first record of the table with that ExternalID.
RECURSIVE FindFrom(_, _, _)
FindFrom(table, ext, i) ==
    IF i > Len(table) THEN NoID
    ELSE IF table[i].Fields.ID = ext THEN table[i].ID
    ELSE FindFrom(table, ext, i + 1)

FindByID(table, ext) == FindFrom(table, ext, 1)

\* A scan that keeps the last record with that ExternalID.
MatchLast(table, ext, i) ==
    LET S == { j \in i..Len(table) : table[j].Fields.ID = ext }
    IN  IF S = {} THEN 0 ELSE CHOOSE j \in S : \A x \in S : x <= j

\* Position of the first record with that ExternalID, 0 when there is none
\* (the scan with break of the classification loop).
RECURSIVE MatchFrom(_, _, _)
MatchFrom(table, ext, i) ==
    IF i > Len(table) THEN 0
    ELSE IF table[i].Fields.ID = ext THEN i
    ELSE MatchFrom(table, ext, i + 1)

\* A comparison that looks at the scalar fields only.
RecordsEqualScalars(rec, dbRecord) == rec.Fields.Title = dbRecord.Fields.Title

RecordsEqual(rec, dbRecord) == rec.Fields = dbRecord.Fields

CopyFields(rec, dbRecord) == [rec EXCEPT !.Fields = dbRecord.Fields]

SetState(rec, s) == [rec EXCEPT !.State = s]

SeqToSet(s) == { s[i] : i \in DOMAIN s }

\* References of a feature: link field, referenced kind, referenced ExternalID.
Ref(field, k, id) == [field |-> field, kind |-> k, id |-> id]

RefsOf(k, f) ==
    CASE k = ProviderIndex -> {}
      [] k = AccountIndex -> { Ref("Provider", ProviderIndex, f.ProviderID) }
      [] k = RepositoryIndex ->
            { Ref("Provider", ProviderIndex, f.Provider.ID) }
            \cup { Ref("Owner", AccountIndex, o.ID) : o \in SeqToSet(f.Owner) }
      [] k = LabelIndex -> { Ref("Repository", RepositoryIndex, f.RepositoryID) }
      [] k = MilestoneIndex ->
            { Ref("Repository", RepositoryIndex, f.RepositoryID) }
            \cup { Ref("Creator", AccountIndex, c.ID) : c \in SeqToSet(f.Creator) }
      [] k = IssueIndex ->
            { Ref("Repository", RepositoryIndex, f.Repository.ID),
              Ref("Author", AccountIndex, f.Author.ID) }
            \cup { Ref("Labels", LabelIndex, l.ID) : l \in SeqToSet(f.Labels) }
            \cup { Ref("Assignees", AccountIndex, a.ID) : a \in SeqToSet(f.Assignees) }
            \cup { Ref("Milestone", MilestoneIndex, m.ID) : m \in SeqToSet(f.Milestone) }

\* Feature.ToRecord(cache): scalars are copied, every reference is looked
\* up in the table of the referenced kind as the cache is at the call.
ToRecord(k, f, db) ==
    Rec(NoID,
        [ID |-> f.ID, Title |-> f.Title,
         Links |-> { <<r.field, FindByID(db[r.kind], r.id)>> : r \in RefsOf(k, f) }],
        StateUnknown)

\* ------------------------------------------------- unique entries (110-150)
\* An insertion that keeps the entry the map already has for the key.
PutIfAbsent(m, id, v) ==
    [x \in (DOMAIN m) \cup {id} |-> IF x \in DOMAIN m THEN m[x] ELSE v]

Put(m, id, v) == [x \in (DOMAIN m) \cup {id} |-> IF x = id THEN v ELSE m[x]]

RECURSIVE PutAll(_, _, _)
PutAll(m, s, i) ==
    IF i > Len(s) THEN m ELSE PutAll(Put(m, s[i].ID, s[i]), s, i + 1)

EmptyMap == [x \in {} |-> 0]

AddIssue(fs, issue) ==
    LET owner == issue.Repository.Owner
        acc1 == PutAll(fs[AccountIndex], owner, 1)
        acc2 == Put(acc1, issue.Author.ID, issue.Author)
        acc3 == PutAll(acc2, issue.Assignees, 1)
        acc4 == IF issue.Milestone # <<>>
                THEN PutAll(acc3, issue.Milestone[1].Creator, 1)
                ELSE acc3
    IN  [k \in Kinds |->
            CASE k = ProviderIndex ->
                    Put(fs[k], issue.Repository.Provider.ID, issue.Repository.Provider)
              [] k = LabelIndex -> PutAll(fs[k], issue.Labels, 1)
              [] k = AccountIndex -> acc4
              [] k = RepositoryIndex -> Put(fs[k], issue.Repository.ID, issue.Repository)
              [] k = MilestoneIndex -> PutAll(fs[k], issue.Milestone, 1)
              [] k = IssueIndex -> Put(fs[k], issue.ID, issue)]

RECURSIVE UniqueEntries(_, _, _)
UniqueEntries(fs, issues, i) ==
    IF i > Len(issues) THEN fs
    ELSE UniqueEntries(AddIssue(fs, issues[i]), issues, i + 1)

\* ---------------------------------------------------------------- the log
\* table: the name of the table a call is issued on (lines 162, 201).
Entry(op, k, ext, id, fields, ok) ==
    [op |-> op, kind |-> k, ext |-> ext, id |-> id, Fields |-> fields, ok |-> ok,
     table |-> IF op = "Build" THEN "" ELSE opts.TableNames[k]]

Mutations == {"Create", "Update", "Delete"}

\* -------------------------------------------------------------------- Init
InitWith(args, graphs, remotes) ==
    /\ opts = SetFlags(ParseFlags, args)
    /\ filtered \in graphs
    /\ remote \in remotes
    /\ nextID = RemoteRowCount(remote) + 1
    /\ features = [k \in Kinds |-> EmptyMap]
    /\ cache = EmptyDB
    /\ unmatched = EmptyDB
    /\ pc = "start"
    /\ kind = 1
    /\ idx = 1
    /\ todo = {}
    /\ result = "none"
    /\ run = 1
    /\ log = <<>>
    /\ prevRuns = <<>>
    /\ failures = 0

\* Runs with the default table names.
Init == \E args \in CommandLines({NoNames}) : InitWith(args, Graphs, InitialRemotes)

\* Runs in which the user names tables on the command line.
InitRenamed ==
    \E args \in CommandLines(RenamedTables) :
        /\ ~args.destroy
        /\ ~MissingCredentials(SetFlags(ParseFlags, args))
        /\ InitWith(args, Graphs, InitialRemotes)

\* ------------------------------------------------------------- airtableSync
\* Lines 94-96: without base ID or token the run returns an error.
\* Lines 102-157: load and deduplicate the features, create the client.
Start ==
    /\ pc = "start"
    /\ IF MissingCredentials(opts)
       THEN /\ pc' = "done"
            /\ result' = "err"
            /\ UNCHANGED <<features, cache, kind>>
       ELSE /\ features' = UniqueEntries([k \in Kinds |-> EmptyMap], filtered, 1)
            /\ cache' = EmptyDB
            /\ pc' = "fetch"
            /\ kind' = 1
            /\ UNCHANGED result
    /\ UNCHANGED <<opts, filtered, remote, nextID, unmatched, idx, todo,
                   run, log, prevRuns, failures>>

\* Lines 161-166, Fetch succeeds: the table holds every remote row.
FetchOK ==
    /\ pc = "fetch"
    /\ cache' = [cache EXCEPT ![kind] =
                    [i \in DOMAIN remote[kind] |->
                        Rec(remote[kind][i].ID, remote[kind][i].Fields, StateUnknown)]]
    /\ log' = Append(log, Entry("List", kind, "", NoID, NoFields, TRUE))
    /\ IF kind < NumTables
       THEN /\ kind' = kind + 1
            /\ UNCHANGED <<pc, todo, unmatched>>
       ELSE \* line 168, and entry of the loop of line 174
            /\ unmatched' = EmptyDB
            /\ pc' = "classify"
            /\ kind' = 1
            /\ todo' = DOMAIN features[1]
    /\ UNCHANGED <<opts, filtered, remote, nextID, features, idx, result,
                   run, prevRuns, failures>>

\* A fetch error that is dropped: the loop goes on with an empty table.
FetchFailContinue ==
    /\ result' = result
    /\ IF kind < NumTables
       THEN /\ kind' = kind + 1
            /\ UNCHANGED <<pc, todo, unmatched>>
       ELSE /\ unmatched' = EmptyDB
            /\ pc' = "classify"
            /\ kind' = 1
            /\ todo' = DOMAIN features[1]

\* Lines 163-165: the run returns the error of Fetch.
FetchFailReturn ==
    /\ pc' = "done"
    /\ result' = "err"
    /\ UNCHANGED <<kind, todo, unmatched>>

\* Lines 161-166, Fetch fails.
FetchFail ==
    /\ pc = "fetch"
    /\ failures < MaxFailures
    /\ failures' = failures + 1
    /\ log' = Append(log, Entry("List", kind, "", NoID, NoFields, FALSE))
    /\ FetchFailReturn
    /\ UNCHANGED <<opts, filtered, remote, nextID, features, cache, idx,
                   run, prevRuns>>

\* Lines 175-194: one iteration of the range over features[kind]; Go
\* ranges over a map in an unspecified order.
ClassifyEntry ==
    /\ pc = "classify"
    /\ \E ext \in todo :
        LET dbEntry == features[kind][ext]
            dbRecord == ToRecord(kind, dbEntry, cache)
            t == cache[kind]
            m == MatchFrom(t, dbEntry.ID, 1)
        IN  /\ todo' = todo \ {ext}
            /\ log' = Append(log, Entry("Build", kind, ext, NoID, dbRecord.Fields, TRUE))
            /\ IF m # 0
               THEN /\ cache' = [cache EXCEPT ![kind][m] =
                            IF RecordsEqual(t[m], dbRecord)
                            THEN SetState(t[m], StateUnchanged)
                            ELSE SetState(CopyFields(t[m], dbRecord), StateChanged)]
                    /\ UNCHANGED unmatched
               ELSE /\ unmatched' = [unmatched EXCEPT ![kind] = Append(@, dbRecord)]
                    /\ UNCHANGED cache
    /\ UNCHANGED <<opts, filtered, remote, nextID, features, pc, kind, idx,
                   result, run, prevRuns, failures>>

\* Line 174: next feature map, or on to the loop of line 200.
ClassifyNext ==
    /\ pc = "classify"
    /\ todo = {}
    /\ IF kind < NumTables
       THEN /\ kind' = kind + 1
            /\ todo' = DOMAIN features[kind + 1]
            /\ UNCHANGED <<pc, idx>>
       ELSE /\ pc' = "create"
            /\ kind' = 1
            /\ idx' = 1
            /\ UNCHANGED todo
    /\ UNCHANGED <<opts, filtered, remote, nextID, features, cache, unmatched,
                   result, run, log, prevRuns, failures>>

\* Lines 204-211, Create succeeds: the remote store assigns the internal ID,
\* the record becomes New and is appended to the cached table.
CreateOK ==
    /\ pc = "create"
    /\ idx <= Len(unmatched[kind])
    /\ LET ut == unmatched[kind]
           created == Rec(nextID, ut[idx].Fields, StateNew)
       IN  /\ remote' = [remote EXCEPT ![kind] =
                            Append(@, [ID |-> nextID, Fields |-> ut[idx].Fields])]
           /\ nextID' = nextID + 1
           /\ unmatched' = [unmatched EXCEPT ![kind][idx] = created]
           /\ cache' = [cache EXCEPT ![kind] = Append(@, created)]
           /\ log' = Append(log, Entry("Create", kind, ut[idx].Fields.ID, nextID,
                                       ut[idx].Fields, TRUE))
    /\ idx' = idx + 1
    /\ UNCHANGED <<opts, filtered, features, pc, kind, todo, result, run,
                   prevRuns, failures>>

\* Lines 206-208, Create fails: the run returns the error.
CreateFail ==
    /\ pc = "create"
    /\ idx <= Len(unmatched[kind])
    /\ failures < MaxFailures
    /\ failures' = failures + 1
    /\ log' = Append(log, Entry("Create", kind, unmatched[kind][idx].Fields.ID, NoID,
                                unmatched[kind][idx].Fields, FALSE))
    /\ pc' = "done"
    /\ result' = "err"
    /\ UNCHANGED <<opts, filtered, remote, nextID, features, cache, unmatched,
                   kind, idx, todo, run, prevRuns>>

\* Line 204, loop condition false: on to the loop of line 212.
CreateDone ==
    /\ pc = "create"
    /\ idx > Len(unmatched[kind])
    /\ pc' = "apply"
    /\ idx' = 1
    /\ UNCHANGED <<opts, filtered, remote, nextID, features, cache, unmatched,
                   kind, todo, result, run, log, prevRuns, failures>>

\* A switch that also updates the records it has just created.
ApplyOpUpdateNew(state) ==
    CASE state = StateUnknown -> "Delete"
      [] state = StateChanged -> "Update"
      [] state = StateUnchanged -> "None"
      [] state = StateNew -> "Update"

\* The switch without its StateUnknown case.
ApplyOpNoDelete(state) ==
    CASE state = StateChanged -> "Update"
      [] OTHER -> "None"

\* Lines 214-227: the call the switch issues for a record in that state.
\* opts.DestroyInvalidRecords is not read.
ApplyOp(state) ==
    CASE state = StateUnknown -> "Delete"
      [] state = StateChanged -> "Update"
      [] state = StateUnchanged -> "None"
      [] state = StateNew -> "None"

\* Effect of a successful Update or Delete on the rows of a remote table.
RemoteApply(rows, op, rec) ==
    IF op = "Delete"
    THEN SelectSeq(rows, LAMBDA r : r.ID # rec.ID)
    ELSE [i \in DOMAIN rows |->
            IF rows[i].ID = rec.ID THEN [rows[i] EXCEPT !.Fields = rec.Fields]
            ELSE rows[i]]

\* Lines 221-226: Unchanged and New records get no call.
ApplyNone ==
    /\ pc = "apply"
    /\ idx <= Len(cache[kind])
    /\ ApplyOp(cache[kind][idx].State) = "None"
    /\ idx' = idx + 1
    /\ UNCHANGED <<opts, filtered, remote, nextID, features, cache, unmatched,
                   pc, kind, todo, result, run, log, prevRuns, failures>>

\* Lines 215-220, the Delete or Update call succeeds.
ApplyOK ==
    /\ pc = "apply"
    /\ idx <= Len(cache[kind])
    /\ LET rec == cache[kind][idx]
           op == ApplyOp(rec.State)
       IN  /\ op # "None"
           /\ remote' = [remote EXCEPT ![kind] = RemoteApply(@, op, rec)]
           /\ log' = Append(log, Entry(op, kind, rec.Fields.ID, rec.ID, rec.Fields, TRUE))
    /\ idx' = idx + 1
    /\ UNCHANGED <<opts, filtered, nextID, features, cache, unmatched, pc,
                   kind, todo, result, run, prevRuns, failures>>

\* An Update or Delete error that ends the run.
ApplyFailReturn ==
    /\ pc' = "done"
    /\ result' = "err"
    /\ UNCHANGED idx

\* Lines 216-220: err is only logged, the loop goes on.
ApplyFailContinue ==
    /\ idx' = idx + 1
    /\ UNCHANGED <<pc, result>>

\* Lines 215-220, the Delete or Update call fails.
ApplyFail ==
    /\ pc = "apply"
    /\ idx <= Len(cache[kind])
    /\ failures < MaxFailures
    /\ LET rec == cache[kind][idx]
           op == ApplyOp(rec.State)
       IN  /\ op # "None"
           /\ log' = Append(log, Entry(op, kind, rec.Fields.ID, rec.ID, rec.Fields, FALSE))
    /\ failures' = failures + 1
    /\ ApplyFailContinue
    /\ UNCHANGED <<opts, filtered, remote, nextID, features, cache, unmatched,
                   kind, todo, run, prevRuns>>

\* Line 212 loop condition false: next table (line 200), or lines 231-243.
ApplyDone ==
    /\ pc = "apply"
    /\ idx > Len(cache[kind])
    /\ IF kind < NumTables
       THEN /\ pc' = "create"
            /\ kind' = kind + 1
            /\ idx' = 1
            /\ UNCHANGED result
       ELSE /\ pc' = "done"
            /\ result' = "ok"
            /\ UNCHANGED <<kind, idx>>
    /\ UNCHANGED <<opts, filtered, remote, nextID, features, cache, unmatched,
                   todo, run, log, prevRuns, failures>>

\* The command is invoked again with the same targets (lines 80-87); only
\* the remote store survives the process.
Rerun ==
    /\ pc = "done"
    /\ run < MaxRuns
    /\ prevRuns' = Append(prevRuns, [result |-> result, log |-> log])
    /\ run' = run + 1
    /\ pc' = "start"
    /\ result' = "none"
    /\ log' = <<>>
    /\ features' = [k \in Kinds |-> EmptyMap]
    /\ cache' = EmptyDB
    /\ unmatched' = EmptyDB
    /\ kind' = 1
    /\ idx' = 1
    /\ todo' = {}
    /\ UNCHANGED <<opts, filtered, remote, nextID, failures>>

Next ==
    \/ Start
    \/ FetchOK
    \/ FetchFail
    \/ ClassifyEntry
    \/ ClassifyNext
    \/ CreateOK
    \/ CreateFail
    \/ CreateDone
    \/ ApplyNone
    \/ ApplyOK
    \/ ApplyFail
    \/ ApplyDone
    \/ Rerun

Spec == Init /\ [][Next]_vars

SpecRenamed == InitRenamed /\ [][Next]_vars

TypeOK ==
    /\ pc \in {"start", "fetch", "classify", "create", "apply", "done"}
    /\ kind \in Kinds
    /\ result \in {"none", "ok", "err"}
    /\ run \in 1..MaxRuns

\* ------------------------------------------------------------- properties
NoFailedCall(l) == \A i \in DOMAIN l : l[i].ok

FailedCalls(ops) == { i \in DOMAIN log : log[i].op \in ops /\ ~log[i].ok }

\* Log positions of the calls op issued for the record with that internal ID.
CallsFor(op, k, id) ==
    { j \in DOMAIN log : log[j].op = op /\ log[j].kind = k /\ log[j].id = id }

\* Every record queued for creation has its Create call in the log.
AllCreatesIssued ==
    \A k \in Kinds : \A j \in DOMAIN unmatched[k] :
        \E i \in DOMAIN log :
            /\ log[i].op = "Create"
            /\ log[i].kind = k
            /\ log[i].ext = unmatched[k][j].Fields.ID

\* Every Changed or Unmatched cached record has its Update or Delete call.
AllAppliesIssued ==
    \A k \in Kinds : \A j \in DOMAIN cache[k] :
        ApplyOp(cache[k][j].State) # "None" =>
            CallsFor(ApplyOp(cache[k][j].State), k, cache[k][j].ID) # {}

\* Remote rows of a kind that carry an ExternalID.
RowsWith(k, ext) == { i \in DOMAIN remote[k] : remote[k][i].Fields.ID = ext }

\* Exactly one remote row per desired feature, field-equal to the body the
\* feature has once its references are resolved against the remote store.
Converged ==
    \A k \in Kinds : \A ext \in DOMAIN features[k] :
        /\ Cardinality(RowsWith(k, ext)) = 1
        /\ \A i \in RowsWith(k, ext) :
              remote[k][i].Fields = ToRecord(k, features[k][ext], remote).Fields

NoDuplicateExternalID ==
    \A k \in Kinds : \A i, j \in DOMAIN remote[k] :
        remote[k][i].Fields.ID = remote[k][j].Fields.ID => i = j

\* Cached records that were fetched (not created by this run) and whose
\* ExternalID no feature of the kind has.
Orphans(k) ==
    { i \in DOMAIN cache[k] :
        /\ cache[k][i].State # StateNew
        /\ cache[k][i].Fields.ID \notin DOMAIN features[k] }

\* C1: partial-failure containment. When a Create call has failed, the run
\* still issues the Create call of every other record queued for creation,
\* the Update/Delete call of every Changed/Unmatched record, for all kinds.
C1_CreateFailureContained ==
    (pc = "done" /\ FailedCalls({"Create"}) # {} /\ FailedCalls({"List"}) = {})
        => (AllCreatesIssued /\ AllAppliesIssued)

\* C2: destructive-delete gate. With DestroyInvalidRecords false no Delete
\* call is ever issued.
C2_NoDeleteWithoutFlag ==
    ~opts.DestroyInvalidRecords => \A i \in DOMAIN log : log[i].op # "Delete"

\* C3: reference ordering. When a run creates both a record and a record
\* that references it, the referenced one is created first and the body
\* sent for the referencing one holds the freshly assigned internal ID.
C3_ReferenceOrdering ==
    \A p, q \in DOMAIN log :
        (/\ log[p].op = "Create" /\ log[p].ok
         /\ log[q].op = "Create" /\ log[q].ok)
        => \A r \in RefsOf(log[q].kind, features[log[q].kind][log[q].ext]) :
              (r.kind = log[p].kind /\ r.id = log[p].ext)
                => (p < q /\ <<r.field, log[p].id>> \in log[q].Fields.Links)

\* C4: idempotence. A run that follows a run that returned success with all
\* its calls succeeding issues no Create, Update or Delete call.
C4_Idempotent ==
    (/\ run >= 2
     /\ prevRuns[run - 1].result = "ok"
     /\ NoFailedCall(prevRuns[run - 1].log))
        => \A i \in DOMAIN log : log[i].op \notin Mutations

\* C5: convergence. After a run that returns success with all remote calls
\* succeeding, every desired feature has exactly one remote row with its
\* ExternalID, field-equal to its body with resolved references.
C5_Convergence ==
    (pc = "done" /\ result = "ok" /\ NoFailedCall(log)) => Converged

\* C6: deletion correctness. A fetched record whose ExternalID no feature of
\* its kind has (1) is still Unmatched after classification, (2) has exactly
\* one Delete call in a run that returns success with deletion enabled, and
\* (3) once its Delete succeeded is not among the rows the next run fetches.
C6_DeletionCorrect ==
    /\ pc \in {"create", "apply", "done"} =>
          \A k \in Kinds : \A i \in Orphans(k) : cache[k][i].State = StateUnknown
    /\ (pc = "done" /\ result = "ok" /\ opts.DestroyInvalidRecords) =>
          \A k \in Kinds : \A i \in Orphans(k) :
              Cardinality(CallsFor("Delete", k, cache[k][i].ID)) = 1
    /\ run >= 2 =>
          \A j \in DOMAIN prevRuns[run - 1].log :
              LET e == prevRuns[run - 1].log[j]
              IN  (e.op = "Delete" /\ e.ok) =>
                      \A i \in DOMAIN cache[e.kind] : cache[e.kind][i].ID # e.id

\* The next run has fetched every table after a run that deleted an orphan.
C6_Witness ==
    /\ run = 2
    /\ pc = "classify"
    /\ opts.DestroyInvalidRecords
    /\ prevRuns[1].result = "ok"
    /\ \E j \in DOMAIN prevRuns[1].log :
          /\ prevRuns[1].log[j].op = "Delete"
          /\ prevRuns[1].log[j].ok
          /\ prevRuns[1].log[j].ext \notin DOMAIN features[prevRuns[1].log[j].kind]

\* C7: a fetch failure is fatal. A failed List call is the last thing the
\* run does, the run returns the error, and the run has issued no Create,
\* Update or Delete; any such call comes after the List of every kind.
C7_FetchFailureFatal ==
    /\ \A i \in FailedCalls({"List"}) :
          /\ pc = "done"
          /\ result = "err"
          /\ i = Len(log)
          /\ \A j \in DOMAIN log : log[j].op \notin Mutations
    /\ \A j \in DOMAIN log :
          log[j].op \in Mutations =>
              \A k \in Kinds :
                  \E i \in 1..(j - 1) :
                      log[i].op = "List" /\ log[i].kind = k /\ log[i].ok

\* The fetch of a later kind failed in a run that had records to create.
C7_Witness ==
    /\ pc = "done"
    /\ filtered # <<>>
    /\ \E i \in FailedCalls({"List"}) : log[i].kind > 1

\* C8: re-run after interruption. After a run that stopped with an error
\* once some of its calls had been applied, one full run without failures leaves exactly one field-equal remote row
\* per desired feature and no duplicate ExternalID.
C8_RerunConverges ==
    (/\ run >= 2
     /\ prevRuns[run - 1].result = "err"
     /\ \E j \in DOMAIN prevRuns[run - 1].log :
           prevRuns[run - 1].log[j].op \in Mutations /\ prevRuns[run - 1].log[j].ok
     /\ pc = "done" /\ result = "ok" /\ NoFailedCall(log))
        => (Converged /\ NoDuplicateExternalID)

\* C9: Update and Delete failures are not fatal. A run that has its
\* credentials and in which no List and no Create failed returns success and has issued the call of every
\* record to create, to update and to delete, whatever Update or Delete
\* failed on the way.
C9_ApplyFailureNonFatal ==
    (/\ pc = "done"
     /\ ~MissingCredentials(opts)
     /\ FailedCalls({"List", "Create"}) = {})
        => (result = "ok" /\ AllCreatesIssued /\ AllAppliesIssued)

\* An Update or Delete failed and the run went on to issue another call.
C9_Witness ==
    /\ pc = "done"
    /\ \E p \in FailedCalls({"Update", "Delete"}) :
          \E q \in DOMAIN log : p < q /\ log[q].op \in Mutations

\* C10: inter-kind sequencing. Every Create call of a kind precedes the
\* build of the record body of any feature of the next kind.
C10_InterKindSequencing ==
    \A p, q \in DOMAIN log :
        (/\ log[p].op = "Build"
         /\ log[q].op = "Create"
         /\ log[p].kind = log[q].kind + 1)
        => q < p

\* C11: unresolved references are skipped. A feature whose body is built
\* while one of its references has no record in the cached table of the
\* referenced kind gets no Create and no Update call in the run.
C11_UnresolvedSkipped ==
    \A b \in DOMAIN log :
        (/\ log[b].op = "Build"
         /\ \E l \in log[b].Fields.Links : l[2] = NoID)
        => \A j \in DOMAIN log :
              ~(/\ log[j].op \in {"Create", "Update"}
                /\ log[j].kind = log[b].kind
                /\ log[j].ext = log[b].ext)

\* The classification loop has ended and no call has changed the remote
\* store yet, so remote still holds the rows as they were fetched.
ClassificationEnded ==
    /\ pc = "create"
    /\ kind = 1
    /\ idx = 1

\* Positions of the fetched rows of a kind with that ExternalID.
FetchedWith(k, ext) == { i \in DOMAIN remote[k] : remote[k][i].Fields.ID = ext }

\* C12: classification. At the end of the classification pass, a feature
\* is queued for creation (once, with its built body) iff no fetched row
\* has its ExternalID; otherwise exactly one row with its ExternalID has
\* left state Unmatched: it is Unchanged with its fields untouched when the
\* built body equals them, else Changed and carrying the built fields.
C12_Classification ==
    ClassificationEnded =>
        \A b \in DOMAIN log :
            log[b].op = "Build" =>
                LET k == log[b].kind
                    ext == log[b].ext
                    queued == { j \in DOMAIN unmatched[k] :
                                    unmatched[k][j].Fields.ID = ext }
                    matched == { i \in FetchedWith(k, ext) :
                                    cache[k][i].State # StateUnknown }
                IN  /\ (queued # {}) <=> (FetchedWith(k, ext) = {})
                    /\ \A j \in queued : unmatched[k][j].Fields = log[b].Fields
                    /\ Cardinality(queued) <= 1
                    /\ FetchedWith(k, ext) # {} => Cardinality(matched) = 1
                    /\ \A i \in matched :
                          /\ cache[k][i].Fields = log[b].Fields
                          /\ cache[k][i].State =
                                IF remote[k][i].Fields = log[b].Fields
                                THEN StateUnchanged ELSE StateChanged

\* Classification has produced a queued, an Unchanged and a Changed record.
C12_Witness ==
    /\ ClassificationEnded
    /\ \E k \in Kinds : unmatched[k] # <<>>
    /\ \E k \in Kinds : \E i \in DOMAIN cache[k] : cache[k][i].State = StateUnchanged
    /\ \E k \in Kinds : \E i \in DOMAIN cache[k] :
          /\ cache[k][i].State = StateChanged
          /\ cache[k][i].Fields.Title = remote[k][i].Fields.Title

\* C13 as stated: after classification every cached record still Unmatched
\* has an ExternalID that no feature of its kind has, also when several
\* fetched rows share an ExternalID.
C13_UnmatchedIsOrphan ==
    ClassificationEnded =>
        \A k \in Kinds : \A i \in DOMAIN cache[k] :
            cache[k][i].State = StateUnknown =>
                cache[k][i].Fields.ID \notin DOMAIN features[k]

\* C13 amended: after classification every cached record still Unmatched
\* has an ExternalID that no feature of its kind has, or comes after another
\* row of the table with the same ExternalID (only the first row with an
\* ExternalID is matched).
C13_UnmatchedIsOrphanOrDuplicate ==
    ClassificationEnded =>
        \A k \in Kinds : \A i \in DOMAIN cache[k] :
            cache[k][i].State = StateUnknown =>
                \/ cache[k][i].Fields.ID \notin DOMAIN features[k]
                \/ \E j \in 1..(i - 1) :
                      cache[k][j].Fields.ID = cache[k][i].Fields.ID

\* Two fetched rows share the ExternalID of a feature; the second is Unmatched.
C13_Witness ==
    /\ ClassificationEnded
    /\ \E k \in Kinds : \E i, j \in DOMAIN cache[k] :
          /\ j < i
          /\ cache[k][j].Fields.ID = cache[k][i].Fields.ID
          /\ cache[k][i].Fields.ID \in DOMAIN features[k]
          /\ cache[k][i].State = StateUnknown
          /\ cache[k][j].State # StateUnknown

\* C14: link-field validity. Every link value sent in a Create or Update of
\* kind K is the internal ID of a record of the cached table of a kind
\* ordered before K, and no Delete for that record succeeds in the run.
C14_LinkFieldsValid ==
    \A j \in DOMAIN log :
        log[j].op \in {"Create", "Update"} =>
            \A l \in log[j].Fields.Links :
                /\ \E k \in 1..(log[j].kind - 1) : \E i \in DOMAIN cache[k] :
                      cache[k][i].ID = l[2]
                /\ \A d \in DOMAIN log :
                      ~(log[d].op = "Delete" /\ log[d].ok /\ log[d].id = l[2])

\* Mutation calls of the run for the record of a kind with that internal ID.
MutationsFor(k, id) ==
    { j \in DOMAIN log :
        log[j].op \in Mutations /\ log[j].kind = k /\ log[j].id = id }

\* The call a record in that state is due.
CallOfState(state) ==
    CASE state = StateNew -> "Create"
      [] state = StateChanged -> "Update"
      [] state = StateUnknown -> "Delete"
      [] state = StateUnchanged -> "None"

\* C15: one call per record per run. A cached record never has more than
\* one mutation call, and only the call of its state (New: Create, Changed:
\* Update, Unmatched: Delete, Unchanged: none); no record is queued for
\* creation twice; in a run that returns success every New, Changed and
\* Unmatched record has exactly its one call.
C15_OneCallPerRecord ==
    /\ \A k \in Kinds : \A i \in DOMAIN cache[k] :
          /\ Cardinality(MutationsFor(k, cache[k][i].ID)) <= 1
          /\ \A j \in MutationsFor(k, cache[k][i].ID) :
                log[j].op = CallOfState(cache[k][i].State)
          /\ (pc = "done" /\ result = "ok" /\ cache[k][i].State # StateUnchanged)
                => MutationsFor(k, cache[k][i].ID) # {}
    /\ \A k \in Kinds : \A ext \in DOMAIN features[k] :
          Cardinality({ j \in DOMAIN log :
                          log[j].op = "Create" /\ log[j].kind = k /\ log[j].ext = ext }) <= 1

\* A finished run has created, updated and deleted a record.
C15_Witness ==
    /\ pc = "done"
    /\ result = "ok"
    /\ \A op \in Mutations : \E j \in DOMAIN log : log[j].op = op /\ log[j].ok

\* The entities of a kind that an issue carries, in the order in which the
\* loop over the filtered issues reaches them.
AccountOccs(issue) ==
    issue.Repository.Owner \o <<issue.Author>> \o issue.Assignees
        \o (IF issue.Milestone # <<>> THEN issue.Milestone[1].Creator ELSE <<>>)

Occs(k, issue) ==
    CASE k = ProviderIndex -> <<issue.Repository.Provider>>
      [] k = AccountIndex -> AccountOccs(issue)
      [] k = RepositoryIndex -> <<issue.Repository>>
      [] k = LabelIndex -> issue.Labels
      [] k = MilestoneIndex -> issue.Milestone
      [] k = IssueIndex -> <<issue>>

RECURSIVE AllOccs(_, _, _)
AllOccs(k, issues, i) ==
    IF i > Len(issues) THEN <<>>
    ELSE Occs(k, issues[i]) \o AllOccs(k, issues, i + 1)

LastWith(occ, id) ==
    occ[CHOOSE j \in DOMAIN occ :
            occ[j].ID = id /\ \A x \in DOMAIN occ : x > j => occ[x].ID # id]

CreatesOf(k, ext) ==
    { j \in DOMAIN log : log[j].op = "Create" /\ log[j].kind = k /\ log[j].ext = ext }

C17_TableNamesHonoured ==
    \A j \in DOMAIN log :
        log[j].op # "Build" => log[j].table = opts.TableName[log[j].kind]

\* C18: missing credentials are fatal before any remote access. With an
\* empty base ID or token the run issues no call at all and returns an error.
C18_MissingCredentialsFatal ==
    (opts.BaseID = "" \/ opts.Token = "") =>
        /\ log = <<>>
        /\ pc \in {"start", "done"}
        /\ pc = "done" => result = "err"
        /\ \A r \in DOMAIN prevRuns :
              prevRuns[r].log = <<>> /\ prevRuns[r].result = "err"

\* A run with a token but no base ID, and a graph to synchronize, has returned.
C18_Witness ==
    /\ pc = "done"
    /\ opts.BaseID = ""
    /\ opts.Token # ""
    /\ filtered # <<>>

====
